---- MODULE Spec2Model ----
(***************************************************************************)
(* Model of the Measurement class of examples/measurement/                 *)
(* laser_scan_pharos.py together with the NI mock-up DAQ driver of         *)
(* experimentor/models/daq/mockup.py.                                      *)
(*                                                                         *)
(* The specifications share the state:                                     *)
(*   Spec, SpecSetup, SpecMonitor, SpecRead, SpecContinuous                *)
(*            - the single-threaded calls that route detectors to DAQs,    *)
(*              arm / start / read / stop acquisition tasks and configure  *)
(*              the laser, each call one atomic action;                    *)
(*   SpecRegistry - load_devices, initialize_devices,                      *)
(*              connect_all_devices_to_daq and set_value_to_device, from   *)
(*              an empty registry;                                         *)
(*   SpecScan - setup_scan followed by the blocking do_scan loop, one      *)
(*              action per driver call, interleaved with a stop_scan       *)
(*              issued from a second thread of control;                    *)
(*   SpecScanLive - do_scan with drivers that do not raise, under weak     *)
(*              fairness of the thread, the axis device and the laser.     *)
(*                                                                         *)
(* Quantities with units are modelled as integers in one fixed unit; the   *)
(* values np.linspace produces are exact rationals <<numerator, denom>>.   *)
(***************************************************************************)
EXTENDS Integers, Sequences, FiniteSets, TLC

----------------------------------------------------------------------------
(* The rig: two DAQs, three detectors wired to them, one laser, one axis.  *)

\* self.devices entries of type daq, in the iteration order of self.daqs
DaqOrder == <<"NI-DAQ", "daq2">>

DAQs == {DaqOrder[i] : i \in 1..Len(DaqOrder)}

DaqPos(d) == CHOOSE i \in 1..Len(DaqOrder) : DaqOrder[i] = d

\* dev.properties['connection']['device'] of every detector
Connection == [pd1 |-> "NI-DAQ", pd2 |-> "NI-DAQ", pd3 |-> "daq2"]

Detectors == DOMAIN Connection

\* the value of daq['monitor_task'] while the key is absent
NoTask == 0

\* the marker of an absent 'wavelength_sweeps' key
Unset == -1

----------------------------------------------------------------------------
(* Bounds of the model.                                                    *)

\* tasks the DAQ drivers create at most, all together (guards
\* analog_input_setup)
MaxTasks == 2

\* longest detector list of a scan or monitor specification
MaxDetectors == 2

\* largest wavelength_sweeps value of a configuration
MaxSweeps == 1

\* largest per-channel count / flat buffer length a hardware driver returns
MaxCount == 1

MaxFlat == 3

\* largest stop value of an axis range, largest step
MaxStop == 3

MaxStep == 3

\* most entries of a devices file, most devices of the registry, longest
\* output_devices and rotation_stages list (guard load_devices)
MaxFile == 2

MaxDevices == 2

MaxListed == 2

----------------------------------------------------------------------------
(* State.                                                                  *)

VARIABLES
  daqs,            \* self.daqs: DAQ name -> [monitor, monitor_task]
  tasks,           \* per DAQ driver: the status of every task it created
  conditions,      \* per DAQ driver: conditions['points'] of the last setup
  laser,           \* laser.params of the laser device
  scan_params,     \* self.scan['laser']['params']['wavelength_sweeps']
  monitor_params,  \* self.monitor['laser']['params']['wavelength_sweeps']
  sweep_condition, \* laser.driver.sweep_condition
  shutter,         \* level of the shutter digital line (TRUE = open)
  axis,            \* self.scan['axis']['device']: dev and range
  geometry,        \* what the last setup computed
  requested,       \* detector list of the last call that set the monitors
  data,            \* what the last read returned
  last,            \* the last call of the single-threaded API and its outcome
  pc,              \* position of the thread running do_scan
  value_index,     \* index of the current value of the outer loop of do_scan
  visited,         \* the values the outer loop has taken so far
  moving,          \* the axis device is moving (finished_moving is False)
  axis_value,      \* the value last written to the axis device
  spc,             \* position of the thread running stop_scan
  history,         \* what do_scan did after stop_scan had returned
  devices,         \* self.devices, in insertion order
  output_devices,  \* self.output_devices
  rotation_stages, \* self.rotation_stages
  bindings,        \* self.daqs: the 'input' and 'output' lists of each entry
  drivers,         \* names of the devices whose driver is initialized
  init_fault,      \* the device call that raised in the last initialize_devices
  written          \* the driver write of the last set_value_to_device

vars == <<daqs, tasks, conditions, laser, scan_params, monitor_params,
          sweep_condition, shutter, axis, geometry, requested, data, last,
          pc, value_index, visited, moving, axis_value, spc, history,
          devices, output_devices, rotation_stages, bindings, drivers,
          init_fault, written>>

regVars == <<devices, output_devices, rotation_stages, bindings, drivers,
             init_fault, written>>

scanVars == <<pc, value_index, visited, moving, axis_value, spc, history>>

----------------------------------------------------------------------------
(* Scan geometry (pure functions).                                         *)

\* Python's int(a / b): truncation toward zero
IntDiv(a, b) ==
  IF a >= 0 THEN a \div b ELSE -((-a) \div b)

\* the wavelength range every parameter set of the model carries
LaserRange == [start_wavelength |-> 0, stop_wavelength |-> 4,
               interval_trigger |-> 2]

\* dict passed to laser.apply_values: the range plus wavelength_sweeps
LaserParams(sweeps) ==
  [start_wavelength  |-> LaserRange.start_wavelength,
   stop_wavelength   |-> LaserRange.stop_wavelength,
   interval_trigger  |-> LaserRange.interval_trigger,
   wavelength_sweeps |-> sweeps]

\* setup_scan: 'wavelength_sweeps' absent or 0 becomes 1
NormalizeSweeps(sweeps) ==
  IF sweeps = Unset THEN 1
  ELSE IF sweeps = 0 THEN 1
  ELSE sweeps

\* setup_continuous_scans: 'wavelength_sweeps' absent becomes 0
MonitorSweeps(sweeps) ==
  IF sweeps = Unset THEN 0 ELSE sweeps

\* setup_scan: num_points, read from laser.params
ScanNumPoints(lp) ==
  IntDiv(lp.stop_wavelength - lp.start_wavelength, lp.interval_trigger)
    * lp.wavelength_sweeps

\* setup_continuous_scans: num_points, read from laser.params
MonitorNumPoints(lp) ==
  IntDiv(lp.stop_wavelength - lp.start_wavelength, lp.interval_trigger)

\* setup_scan: num_points_dev
SetupNumPointsDev(ax) ==
  IF ax.dev # "time"
  THEN IntDiv(ax.stop - ax.start, ax.step)
  ELSE ax.stop

\* do_scan: num_points_dev after "+= 1", as np.linspace reads it (int(num))
ScanNumValues(ax) ==
  IF ax.dev # "time"
  THEN IntDiv(ax.stop - ax.start, ax.step) + 1
  ELSE ax.stop + 1

\* do_scan: the first value of the loop
ScanStart(ax) == IF ax.dev # "time" THEN ax.start ELSE 1

\* np.linspace(start, stop, num, endpoint=True)[i-1] as <<numerator, denominator>>
Linspace(start, stop, num, i) ==
  IF num = 1 THEN <<start, 1>>
  ELSE <<start * (num - 1) + (i - 1) * (stop - start), num - 1>>

\* no value has been written yet
NoValue == <<0, 0>>

\* a rational <<n, d>> equals the integer v
IsValue(q, v) == q[1] = v * q[2]

----------------------------------------------------------------------------
(* The DAQ channel router: monitor lists and acquisition tasks.            *)

\* the duplicate-free detector lists a scan or monitor specification may name
DetectorLists ==
  {s \in UNION {[1..n -> Detectors] : n \in 0..MaxDetectors} :
     \A i, j \in 1..Len(s) : i # j => s[i] # s[j]}

\* a rebuild that forgets to clear the lists first
KeepMonitor(dq) == dq

\* "for d in self.daqs: self.daqs[d]['monitor'] = []"
ClearMonitor(dq) ==
  [d \in DAQs |-> [dq[d] EXCEPT !.monitor = <<>>]]

\* "for dev in devices_to_monitor: self.daqs[...]['monitor'].append(dev)"
AppendMonitor(dq, dets) ==
  [d \in DAQs |->
     [dq[d] EXCEPT !.monitor =
        dq[d].monitor \o SelectSeq(dets, LAMBDA x : Connection[x] = d)]]

\* the DAQs whose monitor list is not empty
Monitoring(dq) == {d \in DAQs : Len(dq[d].monitor) > 0}

\* the DAQ at which a driver call of a loop over self.daqs may raise:
\* "none", or one of the DAQs the loop calls the driver of
FailPoints(dq) == {"none"} \cup Monitoring(dq)

\* the DAQs a loop over self.daqs reaches before it raises at failAt
Before(failAt) ==
  IF failAt = "none" THEN DAQs
  ELSE {d \in DAQs : DaqPos(d) < DaqPos(failAt)}

\* NI.analog_input_setup on the driver of d: a new armed task, whose handle
\* is its index, and the conditions stored by the driver
ArmTasks(tk, armed) ==
  [d \in DAQs |-> IF d \in armed THEN Append(tk[d], "armed") ELSE tk[d]]

\* the number of tasks the drivers have created so far
RECURSIVE CountTasks(_, _)
CountTasks(tk, i) ==
  IF i = 0 THEN 0 ELSE Len(tk[DaqOrder[i]]) + CountTasks(tk, i - 1)

\* the drivers can still create the tasks of the DAQs in armed
CanArm(tk, armed) ==
  CountTasks(tk, Len(DaqOrder)) + Cardinality(armed) <= MaxTasks

\* "daq['monitor_task'] = daq_driver.driver.analog_input_setup(conditions)"
StoreTasks(dq, tk, armed) ==
  [d \in DAQs |->
     IF d \in armed
     THEN [dq[d] EXCEPT !.monitor_task = Len(tk[d]) + 1]
     ELSE dq[d]]

\* NI.analog_input_setup: self.conditions = conditions
StoreConditions(cn, armed, points) ==
  [d \in DAQs |-> IF d \in armed THEN points ELSE cn[d]]

\* the status of the task daq['monitor_task'] names
TaskStatus(dq, tk, d) == tk[d][dq[d].monitor_task]

\* NI.is_task_complete of the mock-up driver
MockupIsTaskComplete == TRUE

\* what is_task_complete may answer for a task: the mock-up's answer, or that
\* of a driver which reports a task as complete unless it is running
IsTaskComplete(status) == {MockupIsTaskComplete, status # "running"}

\* the answers is_task_complete may give in one loop over self.daqs
CompleteAnswers ==
  {c \in [DAQs -> BOOLEAN] :
     \A d \in Monitoring(daqs) :
       daqs[d].monitor_task # NoTask =>
         c[d] \in IsTaskComplete(TaskStatus(daqs, tasks, d))}

\* a DAQ of the loop whose 'monitor_task' key is absent (KeyError)
MissingTask(dq) == {d \in Monitoring(dq) : dq[d].monitor_task = NoTask}

\* stop_task followed by clear_task on the task of every DAQ in stopped
StopAndClear(dq, tk, stopped) ==
  [d \in DAQs |->
     IF d \in stopped
     THEN [tk[d] EXCEPT ![dq[d].monitor_task] = "cleared"]
     ELSE tk[d]]

\* the DAQs on which the stop loop calls stop_task and clear_task
StopSet(dq, complete) ==
  {d \in Monitoring(dq) : ~complete[d]}

\* a start that triggers no task
NoTrigger(dq, tk, triggered) == tk

\* trigger_analog on the task of every DAQ in triggered
Trigger(dq, tk, triggered) ==
  [d \in DAQs |->
     IF d \in triggered /\ tk[d][dq[d].monitor_task] # "cleared"
     THEN [tk[d] EXCEPT ![dq[d].monitor_task] = "running"]
     ELSE tk[d]]

\* laser.apply_values(params): the laser takes the values over, or rejects
\* them (raises) and keeps its prior parameters
ApplyValues(lp, params, accepted) ==
  IF accepted THEN params ELSE lp

\* the first DAQ of the loop whose 'monitor_task' key is absent, or "none"
FirstMissing(dq) ==
  IF MissingTask(dq) = {} THEN "none"
  ELSE CHOOSE d \in MissingTask(dq) :
         \A e \in MissingTask(dq) : DaqPos(d) <= DaqPos(e)

\* a call and how it ended: raised_by names the call that raised, or "none"
Result(op, raised_by) ==
  [op |-> op,
   outcome |-> IF raised_by = "none" THEN "ok" ELSE "raised",
   raised_by |-> raised_by]

NoData == [outcome |-> "none", rows |-> <<>>, returned |-> <<>>]

----------------------------------------------------------------------------
(* The calls of the single-threaded API, each one atomic action.           *)

\* Measurement.connect_monitor_devices_to_daq
ConnectMonitorDevicesToDaq(dets) ==
  /\ daqs' = AppendMonitor(ClearMonitor(daqs), dets)
  /\ requested' = dets
  /\ last' = Result("connect_monitor_devices_to_daq", "none")
  /\ data' = NoData
  /\ UNCHANGED <<tasks, conditions, laser, scan_params, monitor_params,
                 sweep_condition, shutter, axis, geometry>>

\* the body of Measurement.setup_scan: accepted tells whether the laser takes
\* the parameters, failAt where analog_input_setup raises
SetupScanBody(dets, accepted, failAt) ==
  LET params == NormalizeSweeps(scan_params)
      lp     == ApplyValues(laser, LaserParams(params), accepted)
      dq     == AppendMonitor(ClearMonitor(daqs), dets)
      np     == ScanNumPoints(lp)
      npd    == SetupNumPointsDev(axis)
      armed  == Monitoring(dq) \cap Before(failAt)
  IN  /\ failAt \in FailPoints(dq)
      /\ CanArm(tasks, armed)
      /\ scan_params' = params
      /\ laser' = lp
      /\ daqs' = StoreTasks(dq, tasks, armed)
      /\ tasks' = ArmTasks(tasks, armed)
      /\ conditions' = StoreConditions(conditions, armed, np * npd)
      /\ geometry' = [wavelength_points |-> np, axis_points |-> npd,
                      points |-> np * npd, sweeps |-> params,
                      accepted |-> accepted]
      /\ requested' = dets
      /\ last' = Result("setup_scan",
                        IF failAt = "none" THEN "none"
                        ELSE "analog_input_setup")
      /\ data' = NoData
      /\ UNCHANGED <<monitor_params, sweep_condition, shutter, axis>>

\* the body of Measurement.setup_continuous_scans
SetupContinuousScans(dets, accepted, failAt) ==
  LET params == MonitorSweeps(monitor_params)
      lp     == ApplyValues(laser, LaserParams(params), accepted)
      dq     == AppendMonitor(ClearMonitor(daqs), dets)
      np     == MonitorNumPoints(lp)
      armed  == Monitoring(dq) \cap Before(failAt)
  IN  /\ monitor_params' = params
      /\ data' = NoData
      /\ UNCHANGED <<scan_params, sweep_condition, shutter, axis>>
      /\ IF ~accepted
         THEN \* laser.apply_values raises and nothing catches it
              /\ failAt = "none"
              /\ last' = Result("setup_continuous_scans", "apply_values")
              /\ geometry' = [wavelength_points |-> 0, axis_points |-> 0,
                              points |-> 0, sweeps |-> params,
                              accepted |-> FALSE]
              /\ requested' = dets
              /\ UNCHANGED <<daqs, tasks, conditions, laser>>
         ELSE /\ failAt \in FailPoints(dq)
              /\ CanArm(tasks, armed)
              /\ laser' = lp
              /\ daqs' = StoreTasks(dq, tasks, armed)
              /\ tasks' = ArmTasks(tasks, armed)
              /\ conditions' = StoreConditions(conditions, armed, np)
              /\ geometry' = [wavelength_points |-> np, axis_points |-> 1,
                              points |-> np, sweeps |-> params,
                              accepted |-> TRUE]
              /\ requested' = dets
              /\ last' = Result("setup_continuous_scans",
                                IF failAt = "none" THEN "none"
                                ELSE "analog_input_setup")

\* Measurement.start_continuous_scans
StartContinuousScans(complete) ==
  LET miss    == FirstMissing(daqs)
      reached == Monitoring(daqs) \cap Before(miss)
  IN  /\ tasks' = Trigger(daqs, tasks, {d \in reached : complete[d]})
      /\ sweep_condition' = IF miss = "none" THEN "Running"
                            ELSE sweep_condition
      /\ last' = Result("start_continuous_scans",
                        IF miss = "none" THEN "none" ELSE "monitor_task")
      /\ data' = NoData
      /\ UNCHANGED <<daqs, conditions, laser, scan_params, monitor_params,
                     shutter, axis, geometry, requested>>

\* the loop over self.daqs that ends stop_scan and stop_continuous_scans
StopTasks(complete) ==
  LET miss    == FirstMissing(daqs)
      reached == Monitoring(daqs) \cap Before(miss)
  IN  tasks' = StopAndClear(daqs, tasks, StopSet(daqs, complete) \cap reached)

\* Measurement.stop_continuous_scans
StopContinuousScans(complete) ==
  /\ sweep_condition' = "Stop"
  /\ StopTasks(complete)
  /\ last' = Result("stop_continuous_scans",
                    IF FirstMissing(daqs) = "none" THEN "none" ELSE "monitor_task")
  /\ data' = NoData
  /\ UNCHANGED <<daqs, conditions, laser, scan_params, monitor_params,
                 shutter, axis, geometry, requested>>

\* Measurement.stop_scan, called while no scan runs
StopScan(complete) ==
  /\ sweep_condition' = "Stop"
  /\ shutter' = FALSE
  /\ StopTasks(complete)
  /\ last' = Result("stop_scan",
                    IF FirstMissing(daqs) = "none" THEN "none" ELSE "monitor_task")
  /\ data' = NoData
  /\ UNCHANGED <<daqs, conditions, laser, scan_params, monitor_params,
                 axis, geometry, requested>>

\* a pause that also stops and clears the tasks of the monitored DAQs
PauseAndStopTasks ==
  /\ sweep_condition' = "Pause"
  /\ tasks' = StopAndClear(daqs, tasks,
                           {d \in Monitoring(daqs) : daqs[d].monitor_task # NoTask})
  /\ last' = Result("pause_continuous_scans", "none")
  /\ data' = NoData
  /\ UNCHANGED <<daqs, conditions, laser, scan_params, monitor_params,
                 shutter, axis, geometry, requested>>

\* Measurement.pause_continuous_scans
PauseContinuousScans ==
  /\ sweep_condition' = "Pause"
  /\ last' = Result("pause_continuous_scans", "none")
  /\ data' = NoData
  /\ UNCHANGED <<daqs, tasks, conditions, laser, scan_params, monitor_params,
                 shutter, axis, geometry, requested>>

\* Measurement.resume_continuous_scans
ResumeContinuousScans ==
  /\ sweep_condition' = "Running"
  /\ last' = Result("resume_continuous_scans", "none")
  /\ data' = NoData
  /\ UNCHANGED <<daqs, tasks, conditions, laser, scan_params, monitor_params,
                 shutter, axis, geometry, requested>>

----------------------------------------------------------------------------
(* Reading the acquired samples.                                           *)

\* NI.read_analog of the mock-up driver: (points, y) with len(y) = points
MockupReadAnalog(points) == <<points, points>>

\* what read_analog may return for a DAQ: <<vv, length of dd>>; the mock-up's
\* answer, or a hardware driver's count and flat buffer
ReadAnalog(points) ==
  {MockupReadAnalog(points)}
    \cup ((0..MaxCount) \X (0..MaxFlat))

\* "dd = dd[:vv * len(daq['monitor'])]": the length of the slice
Slice(n, vv, k) == IF n < vv * k THEN n ELSE vv * k

\* "np.reshape(dd, (len(daq['monitor']), int(vv)))" succeeds
ReshapeOk(len, k, vv) == len = k * vv

\* one DAQ's read succeeds: ret is what its read_analog returned
ReadOk(dq, ret, d) ==
  /\ dq[d].monitor_task # NoTask
  /\ ReshapeOk(Slice(ret[d][2], ret[d][1], Len(dq[d].monitor)),
               Len(dq[d].monitor), ret[d][1])

\* the first DAQ of the loop whose read raises, or "none"
FirstReadError(dq, ret) ==
  LET bad == {d \in Monitoring(dq) : ~ReadOk(dq, ret, d)}
  IN  IF bad = {} THEN "none"
      ELSE CHOOSE d \in bad : \A e \in bad : DaqPos(d) <= DaqPos(e)

\* "data[dev.properties['name']] = dd[i, :]": device name -> length of its row
Rows(dq, ret) ==
  [x \in {y \in Detectors : \E d \in Monitoring(dq) :
                              \E i \in 1..Len(dq[d].monitor) :
                                dq[d].monitor[i] = y} |->
     ret[Connection[x]][1]]

\* what read_analog may return for DAQ d in the current state
ReturnsOf(d) ==
  IF d \in Monitoring(daqs) /\ daqs[d].monitor_task # NoTask
  THEN ReadAnalog(conditions[d])
  ELSE {<<0, 0>>}

\* the returns read_analog may give in one loop over self.daqs
ReadReturns ==
  {r \in [DAQs -> UNION {ReturnsOf(d) : d \in DAQs}] :
     \A d \in DAQs : r[d] \in ReturnsOf(d)}

\* the body shared by read_scans and read_continuous_scans
ReadAll(op, ret) ==
  /\ data' = IF FirstReadError(daqs, ret) = "none"
             THEN [outcome |-> "ok", rows |-> Rows(daqs, ret),
                   returned |-> ret]
             ELSE [outcome |-> "raised", rows |-> <<>>, returned |-> ret]
  /\ last' = Result(op, IF FirstReadError(daqs, ret) = "none" THEN "none"
                        ELSE IF FirstReadError(daqs, ret) \in MissingTask(daqs)
                        THEN "monitor_task" ELSE "reshape")
  /\ UNCHANGED <<daqs, tasks, conditions, laser, scan_params, monitor_params,
                 sweep_condition, shutter, axis, geometry, requested>>

\* Measurement.read_scans
ReadScans(ret) == ReadAll("read_scans", ret)

\* Measurement.read_continuous_scans
ReadContinuousScans(ret) == ReadAll("read_continuous_scans", ret)

----------------------------------------------------------------------------
(* The device registry: load_devices and initialize_devices.               *)

\* dev.properties of a device: conn is properties['connection']['device'],
\* "none" where the key is absent; outputs and defaults tell whether the keys
\* 'outputs' and 'defaults' are present; model is properties['model']
Device(name, type, outputs, defaults, conn, mode, model) ==
  [name |-> name, type |-> type, outputs |-> outputs, defaults |-> defaults,
   conn |-> conn, mode |-> mode, model |-> model]

DaqDevice(name) == Device(name, "daq", FALSE, FALSE, "none", "none", "none")

Detector(name) ==
  Device(name, "detector", FALSE, FALSE, Connection[name], "input", "none")

LaserDevice == Device("laser", "laser", FALSE, TRUE, "none", "none", "none")

StageDevice(defaults) ==
  Device("stage", "Rotation Stage", TRUE, defaults, "none", "none", "none")

AnalogOutput(name, daq) ==
  Device(name, "analog", TRUE, FALSE, daq, "output", "ni")

\* an output of a DAQ whose 'model' key names another make than 'ni'
OtherOutput(name, daq) ==
  Device(name, "analog", TRUE, FALSE, daq, "output", "other")

\* the devices from_yaml_to_devices may return: two DAQs, the laser, an
\* analog output of model 'ni', one of another model and a detector of the
\* first DAQ, and two rotation stages that carry the same name
Descriptors ==
  {DaqDevice("NI-DAQ"), DaqDevice("daq2"), LaserDevice,
   StageDevice(FALSE), StageDevice(TRUE),
   AnalogOutput("ao1", "NI-DAQ"), OtherOutput("ao2", "NI-DAQ"),
   Detector("pd1")}

\* the devices file of the rig the scans run on
Rig ==
  <<DaqDevice("NI-DAQ"), DaqDevice("daq2"), LaserDevice, StageDevice(FALSE),
    Detector("pd1"), Detector("pd2"), Detector("pd3")>>

\* the devices lists (devices_list) a devices file may hold
DeviceFiles == UNION {[1..n -> Descriptors] : n \in 1..MaxFile}

\* the source argument of load_devices
NoSource == "None"

Sources == {NoSource, "file"}

\* the keys of a dict of devices kept in insertion order
NamesOf(devs) == {devs[i].name : i \in 1..Len(devs)}

\* "self.devices[dev.properties['name']] = dev": a present key keeps its
\* position and takes the new device
Put(devs, dev) ==
  IF dev.name \in NamesOf(devs)
  THEN [i \in 1..Len(devs) |->
          IF devs[i].name = dev.name THEN dev ELSE devs[i]]
  ELSE Append(devs, dev)

\* the loop of load_devices over devices_list, for self.devices
RECURSIVE PutAll(_, _)
PutAll(devs, file) ==
  IF file = <<>> THEN devs
  ELSE PutAll(Put(devs, Head(file)), Tail(file))

\* "if 'outputs' in dev.properties"
HasOutputs(dev) == dev.outputs

\* "if dev.properties['type'] == "Rotation Stage""
IsRotationStage(dev) == dev.type = "Rotation Stage"

\* the devices load_devices appends to self.output_devices
OutputsOf(file) == SelectSeq(file, HasOutputs)

\* the names load_devices appends to self.rotation_stages
RotationStagesOf(file) ==
  LET st == SelectSeq(file, IsRotationStage)
  IN  [i \in 1..Len(st) |-> st[i].name]

\* Measurement.load_devices
LoadDevices(source, file) ==
  /\ IF source # NoSource
     THEN UNCHANGED <<devices, output_devices, rotation_stages, drivers>>
     ELSE /\ Len(PutAll(devices, file)) <= MaxDevices
          /\ Len(output_devices \o OutputsOf(file)) <= MaxListed
          /\ Len(rotation_stages \o RotationStagesOf(file)) <= MaxListed
          /\ devices' = PutAll(devices, file)
          /\ output_devices' = output_devices \o OutputsOf(file)
          /\ rotation_stages' = rotation_stages \o RotationStagesOf(file)
          /\ drivers' = drivers \ NamesOf(file)
  /\ last' = Result("load_devices", "none")
  /\ UNCHANGED <<daqs, tasks, conditions, laser, scan_params, monitor_params,
                 sweep_condition, shutter, axis, geometry, requested, data,
                 bindings, init_fault, written>>

\* no call of initialize_devices raises
NoFault == [name |-> "none", call |-> "none"]

\* the device call that raises in an initialize_devices: initialize_driver
\* or, for a device with defaults, apply_values
Faults ==
  {NoFault} \cup
  [name : {d.name : d \in Descriptors},
   call : {"initialize_driver", "apply_values"}]

\* the position in self.devices at which initialize_devices raises, 0 if it
\* does not raise
FailsAt(devs, fault) ==
  LET hit == {i \in 1..Len(devs) :
                /\ devs[i].name = fault.name
                /\ fault.call = "apply_values" => devs[i].defaults}
  IN  IF hit = {} THEN 0 ELSE CHOOSE i \in hit : TRUE

\* the positions the loop of initialize_devices completes
Completed(devs, fault) ==
  IF FailsAt(devs, fault) = 0 THEN 1..Len(devs)
  ELSE 1..(FailsAt(devs, fault) - 1)

\* the devices whose initialize_driver has returned
DriversLoaded(devs, fault) ==
  {devs[i].name : i \in Completed(devs, fault)}
    \cup IF FailsAt(devs, fault) # 0 /\ fault.call = "apply_values"
         THEN {fault.name} ELSE {}

\* the DAQs for which the loop creates the entry of self.daqs
NewBindings(devs, fault) ==
  {devs[i].name : i \in {j \in Completed(devs, fault) : devs[j].type = "daq"}}

\* "{'input': [], 'output': [], 'monitor': []}" without its 'monitor' list
EmptyBinding == [input |-> <<>>, output |-> <<>>]

\* Measurement.initialize_devices
InitializeDevices(fault) ==
  LET new == NewBindings(devices, fault)
  IN  /\ drivers' = drivers \cup DriversLoaded(devices, fault)
      /\ bindings' = [d \in (DOMAIN bindings) \cup new |->
                        IF d \in new THEN EmptyBinding ELSE bindings[d]]
      /\ daqs' = [d \in DAQs |->
                    IF d \in new
                    THEN [monitor |-> <<>>, monitor_task |-> NoTask]
                    ELSE daqs[d]]
      /\ init_fault' = fault
      /\ last' = Result("initialize_devices",
                        IF FailsAt(devices, fault) = 0 THEN "none"
                        ELSE fault.call)
      /\ UNCHANGED <<tasks, conditions, laser, scan_params, monitor_params,
                     sweep_condition, shutter, axis, geometry, requested,
                     data, devices, output_devices, rotation_stages,
                     written>>

\* the device self.devices[name]
DeviceOf(devs, name) ==
  devs[CHOOSE i \in 1..Len(devs) : devs[i].name = name]

\* the devices connect_all_devices_to_daq has appended so far when it raises
\* a KeyError at position stop of self.devices, or all of them (stop = 0)
RECURSIVE AppendConnected(_, _, _, _)
AppendConnected(bd, devs, i, stop) ==
  IF i > Len(devs) \/ i = stop THEN bd
  ELSE LET dev == devs[i]
       IN  IF dev.conn = "none" THEN AppendConnected(bd, devs, i + 1, stop)
           ELSE AppendConnected(
                  [bd EXCEPT ![dev.conn][dev.mode] = Append(@, dev)],
                  devs, i + 1, stop)

\* the first position of self.devices whose device is connected to a DAQ
\* without an entry in self.daqs (KeyError), 0 if there is none
FirstUnbound(bd, devs) ==
  LET bad == {i \in 1..Len(devs) :
                devs[i].conn # "none" /\ devs[i].conn \notin DOMAIN bd}
  IN  IF bad = {} THEN 0
      ELSE CHOOSE i \in bad : \A j \in bad : i <= j

\* the longest 'input' or 'output' list of self.daqs
LongestList(bd) ==
  LET lens == {0} \cup {Len(bd[d].input) : d \in DOMAIN bd}
                  \cup {Len(bd[d].output) : d \in DOMAIN bd}
  IN  CHOOSE n \in lens : \A m \in lens : m <= n

\* Measurement.connect_all_devices_to_daq
ConnectAllDevicesToDaq ==
  LET stop == FirstUnbound(bindings, devices)
      bd   == AppendConnected(bindings, devices, 1, stop)
  IN  /\ LongestList(bd) <= MaxListed
      /\ bindings' = bd
      /\ last' = Result("connect_all_devices_to_daq",
                        IF stop = 0 THEN "none" ELSE "daqs")
      /\ UNCHANGED <<daqs, tasks, conditions, laser, scan_params,
                     monitor_params, sweep_condition, shutter, axis, geometry,
                     requested, data, devices, output_devices,
                     rotation_stages, drivers, init_fault, written>>

\* no driver write
NoWrite == [dev |-> "none", via |-> "none"]

\* the driver call set_value_to_device delivers the value with: "none" where
\* the 'model' key is present and is not 'ni'
WriteVia(dev) ==
  IF dev.model # "none"
  THEN IF dev.model = "ni" THEN "analog_output_dc" ELSE "none"
  ELSE "apply_values"

\* "daq = self.devices[dev.properties['connection']['device']]" raises a
\* KeyError
DaqMissing(devs, dev) ==
  dev.model = "ni" /\ dev.conn \notin NamesOf(devs)

\* Measurement.set_value_to_device on a registered device
SetValueToDevice(name) ==
  /\ name \in NamesOf(devices)
  /\ LET dev == DeviceOf(devices, name)
     IN  IF DaqMissing(devices, dev)
         THEN /\ written' = [dev |-> name, via |-> "none"]
              /\ last' = Result("set_value_to_device", "devices")
         ELSE /\ written' = [dev |-> name, via |-> WriteVia(dev)]
              /\ last' = Result("set_value_to_device", "none")
  /\ UNCHANGED <<daqs, tasks, conditions, laser, scan_params, monitor_params,
                 sweep_condition, shutter, axis, geometry, requested, data,
                 devices, output_devices, rotation_stages, bindings, drivers,
                 init_fault>>

----------------------------------------------------------------------------
(* Initial states and the specification of the single-threaded API.        *)

\* the values a configuration file may give 'wavelength_sweeps'
SweepsConfigs == {Unset} \cup (0..MaxSweeps)

\* the axis ranges of a scan specification: a device axis with
\* start < stop and step > 0, or the time axis with range stop N
AxisConfigs ==
  {[dev |-> "stage", start |-> a, stop |-> b, step |-> c] :
     a \in 0..MaxStop, b \in 0..MaxStop, c \in 1..MaxStep}
  \cup {[dev |-> "time", start |-> 1, stop |-> n, step |-> 1] :
          n \in 1..MaxStop}

\* the valid ranges: start < stop (and step > 0), or the time axis
ValidAxes == {ax \in AxisConfigs : ax.dev = "time" \/ ax.start < ax.stop}

\* the detector lists of the scan specification of a do_scan
ScanDetectorLists == {s \in DetectorLists : Len(s) = MaxDetectors}

\* the registry after load_devices and initialize_devices on the rig
InitRig ==
  /\ devices = PutAll(<<>>, Rig)
  /\ output_devices = OutputsOf(Rig)
  /\ rotation_stages = RotationStagesOf(Rig)
  /\ bindings = [d \in DAQs |-> EmptyBinding]
  /\ drivers = NamesOf(Rig)
  /\ init_fault = NoFault
  /\ written = NoWrite

\* Measurement.__init__: the state outside the registry
InitMeasurement ==
  /\ daqs = [d \in DAQs |-> [monitor |-> <<>>, monitor_task |-> NoTask]]
  /\ tasks = [d \in DAQs |-> <<>>]
  /\ conditions = [d \in DAQs |-> Unset]
  /\ laser = LaserParams(1)
  /\ sweep_condition = "Stop"
  /\ shutter = FALSE
  /\ geometry = [wavelength_points |-> 0, axis_points |-> 0, points |-> 0,
                 sweeps |-> 1, accepted |-> TRUE]
  /\ requested = <<>>
  /\ data = NoData
  /\ last = Result("init", "none")
  /\ pc = "idle"
  /\ value_index = 0
  /\ visited = <<>>
  /\ moving = FALSE
  /\ axis_value = NoValue
  /\ spc = "idle"
  /\ history = [swept |-> FALSE, opened |-> FALSE]

\* Measurement.__init__ followed by the loading and the initialization of the
\* devices of the rig
InitCommon == InitMeasurement /\ InitRig

\* the scan and monitor specifications of the rig: no 'wavelength_sweeps'
\* key, an axis of two values
Init ==
  /\ InitCommon
  /\ scan_params = Unset
  /\ monitor_params = Unset
  /\ axis = [dev |-> "stage", start |-> 0, stop |-> 1, step |-> 1]

SetupScan(dets, accepted, failAt) ==
  /\ SetupScanBody(dets, accepted, failAt)
  /\ UNCHANGED <<scanVars, regVars>>

\* the calls that arm, start and stop the acquisition tasks, with a laser
\* that accepts its parameters
Next ==
  \/ \E dets \in DetectorLists :
       ConnectMonitorDevicesToDaq(dets) /\ UNCHANGED <<scanVars, regVars>>
  \/ \E dets \in DetectorLists, failAt \in DAQs \cup {"none"} :
       SetupScan(dets, TRUE, failAt)
  \/ \E dets \in DetectorLists, failAt \in DAQs \cup {"none"} :
       SetupContinuousScans(dets, TRUE, failAt) /\ UNCHANGED <<scanVars, regVars>>
  \/ \E c \in CompleteAnswers : StartContinuousScans(c) /\ UNCHANGED <<scanVars, regVars>>
  \/ \E c \in CompleteAnswers : StopContinuousScans(c) /\ UNCHANGED <<scanVars, regVars>>
  \/ \E c \in CompleteAnswers : StopScan(c) /\ UNCHANGED <<scanVars, regVars>>

Spec == Init /\ [][Next]_vars

\* every configuration of 'wavelength_sweeps'
InitSetup ==
  /\ InitCommon
  /\ scan_params \in SweepsConfigs
  /\ monitor_params \in SweepsConfigs
  /\ axis = [dev |-> "stage", start |-> 0, stop |-> 2, step |-> 1]

\* the calls that set the monitor targets and configure the laser, with a
\* laser that may reject its parameters
NextSetup ==
  \/ \E dets \in DetectorLists :
       ConnectMonitorDevicesToDaq(dets) /\ UNCHANGED <<scanVars, regVars>>
  \/ \E dets \in DetectorLists, accepted \in BOOLEAN, failAt \in DAQs \cup {"none"} :
       SetupScan(dets, accepted, failAt)
  \/ \E dets \in DetectorLists, accepted \in BOOLEAN, failAt \in DAQs \cup {"none"} :
       SetupContinuousScans(dets, accepted, failAt) /\ UNCHANGED <<scanVars, regVars>>

SpecSetup == InitSetup /\ [][NextSetup]_vars

\* the same calls from the configuration that leaves both sweep counts unset
SpecMonitor == Init /\ [][NextSetup]_vars

\* reading changes nothing but the data returned: the reads are checked
\* against the states the setup calls produce
NextRead ==
  \/ \E dets \in DetectorLists : SetupScan(dets, TRUE, "none")
  \/ \E dets \in DetectorLists :
       SetupContinuousScans(dets, TRUE, "none") /\ UNCHANGED <<scanVars, regVars>>
  \/ \E ret \in ReadReturns : ReadScans(ret) /\ UNCHANGED <<scanVars, regVars>>
  \/ \E ret \in ReadReturns : ReadContinuousScans(ret) /\ UNCHANGED <<scanVars, regVars>>

SpecRead == Init /\ [][NextRead]_vars

\* the calls that build the registry, connect its devices to the DAQs and set
\* a device to a value, from the empty registry of Measurement.__init__
InitRegistry ==
  /\ InitMeasurement
  /\ scan_params = Unset
  /\ monitor_params = Unset
  /\ axis = [dev |-> "stage", start |-> 0, stop |-> 1, step |-> 1]
  /\ devices = <<>>
  /\ output_devices = <<>>
  /\ rotation_stages = <<>>
  /\ bindings = [d \in {} |-> EmptyBinding]
  /\ drivers = {}
  /\ init_fault = NoFault
  /\ written = NoWrite

NextRegistry ==
  \/ \E file \in DeviceFiles :
       LoadDevices(NoSource, file) /\ UNCHANGED scanVars
  \/ \E source \in Sources \ {NoSource} :
       LoadDevices(source, <<>>) /\ UNCHANGED scanVars
  \/ \E fault \in Faults : InitializeDevices(fault) /\ UNCHANGED scanVars
  \/ ConnectAllDevicesToDaq /\ UNCHANGED scanVars
  \/ \E name \in {d.name : d \in Descriptors} :
       SetValueToDevice(name) /\ UNCHANGED scanVars

SpecRegistry == InitRegistry /\ [][NextRegistry]_vars

\* the continuous (monitor) mode: set up, start, pause, resume and stop
NextContinuous ==
  \/ \E dets \in DetectorLists, failAt \in DAQs \cup {"none"} :
       SetupContinuousScans(dets, TRUE, failAt) /\ UNCHANGED <<scanVars, regVars>>
  \/ \E c \in CompleteAnswers : StartContinuousScans(c) /\ UNCHANGED <<scanVars, regVars>>
  \/ PauseContinuousScans /\ UNCHANGED <<scanVars, regVars>>
  \/ ResumeContinuousScans /\ UNCHANGED <<scanVars, regVars>>
  \/ \E c \in CompleteAnswers : StopContinuousScans(c) /\ UNCHANGED <<scanVars, regVars>>

SpecContinuous == Init /\ [][NextContinuous]_vars

----------------------------------------------------------------------------
(* do_scan, one action per driver call, and stop_scan from a second thread *)
(* of control.                                                             *)

\* the calls of do_line_scan that follow the opening of the shutter
AfterOpen == {"execute_sweep", "sweep_condition", "digital_output_close"}

\* the positions of do_scan inside do_line_scan
InLineScan == {"line_close", "line_open", "line_sweep", "line_poll",
               "line_close_end"}

\* the positions at which do_scan is in progress
InProgress == InLineScan \cup {"loop", "set_value", "wait_move"}

\* a driver call of do_scan raises: the exception leaves do_scan
Raise(call) ==
  /\ pc' = "failed"
  /\ last' = Result("do_scan", call)

\* setup_scan, called by the thread that then runs do_scan
ScanSetup(dets) ==
  /\ pc = "idle"
  /\ SetupScanBody(dets, TRUE, "none")
  /\ pc' = "configured"
  /\ UNCHANGED <<regVars, axis_value, value_index, visited, moving, spc, history>>

\* do_scan up to its loop. The axis device is read as
\* "scan['axis']['device']['dev']['dev'].properties['name']": for the sentinel
\* 'time', the string setup_scan compares the same entry with, the attribute
\* lookup raises
DoScanBegin ==
  /\ pc = "configured"
  /\ IF axis.dev = "time"
     THEN Raise("properties")
     ELSE pc' = "loop" /\ UNCHANGED last
  /\ value_index' = 0
  /\ visited' = <<>>
  /\ UNCHANGED <<regVars, axis_value, daqs, tasks, conditions, laser, scan_params, monitor_params,
                 sweep_condition, shutter, axis, geometry, requested, data,
                 moving, spc, history>>

\* "for value in np.linspace(start, stop, num_points_dev, endpoint=True)"
LoopNext ==
  /\ pc = "loop"
  /\ IF value_index < ScanNumValues(axis)
     THEN /\ value_index' = value_index + 1
          /\ visited' = Append(visited,
                               Linspace(ScanStart(axis), axis.stop,
                                        ScanNumValues(axis), value_index + 1))
          /\ pc' = IF axis.dev # "time" THEN "set_value" ELSE "line_close"
          /\ UNCHANGED last
     ELSE /\ pc' = "done"
          /\ last' = Result("do_scan", "none")
          /\ UNCHANGED <<value_index, visited>>
  /\ UNCHANGED <<regVars, axis_value, daqs, tasks, conditions, laser, scan_params, monitor_params,
                 sweep_condition, shutter, axis, geometry, requested, data,
                 moving, spc, history>>

\* "self.set_value_to_device(dev_to_scan, {output: value * units})"
SetValue(ok, moves) ==
  /\ pc = "set_value"
  /\ IF ok
     THEN /\ pc' = "wait_move"
          /\ axis_value' = visited[value_index]
          /\ moving' = moves
          /\ UNCHANGED last
     ELSE /\ Raise("set_value_to_device")
          /\ UNCHANGED <<moving, axis_value>>
  /\ UNCHANGED <<regVars, daqs, tasks, conditions, laser, scan_params, monitor_params,
                 sweep_condition, shutter, axis, geometry, requested, data,
                 value_index, visited, spc, history>>

\* a do_scan that starts the line scan without polling finished_moving
NoWaitMove ==
  /\ pc = "wait_move"
  /\ pc' = "line_close"
  /\ UNCHANGED <<regVars, axis_value, daqs, tasks, conditions, laser,
                 scan_params, monitor_params, sweep_condition, shutter, axis,
                 geometry, requested, data, last, value_index, visited,
                 moving, spc, history>>

\* "while not dev.driver.finished_moving: time.sleep(0.2)" sees the device at
\* rest
WaitMove ==
  /\ pc = "wait_move"
  /\ ~moving
  /\ pc' = "line_close"
  /\ UNCHANGED <<regVars, axis_value, daqs, tasks, conditions, laser, scan_params, monitor_params,
                 sweep_condition, shutter, axis, geometry, requested, data,
                 last, value_index, visited, moving, spc, history>>

\* the axis device comes to rest
AxisStops ==
  /\ moving
  /\ moving' = FALSE
  /\ UNCHANGED <<regVars, axis_value, daqs, tasks, conditions, laser, scan_params, monitor_params,
                 sweep_condition, shutter, axis, geometry, requested, data,
                 last, pc, value_index, visited, spc, history>>

\* do_line_scan: "ni_daq.driver.digital_output(shutter['port'], False)"
LineClose(ok) ==
  /\ pc = "line_close"
  /\ IF ok
     THEN /\ shutter' = FALSE
          /\ pc' = "line_open"
          /\ UNCHANGED last
     ELSE /\ Raise("digital_output")
          /\ UNCHANGED shutter
  /\ UNCHANGED <<regVars, axis_value, daqs, tasks, conditions, laser, scan_params, monitor_params,
                 sweep_condition, axis, geometry, requested, data,
                 value_index, visited, moving, spc, history>>

\* do_line_scan: "ni_daq.driver.digital_output(shutter['port'], True)"
LineOpen(ok) ==
  /\ pc = "line_open"
  /\ IF ok
     THEN /\ shutter' = TRUE
          /\ pc' = "line_sweep"
          /\ history' = [history EXCEPT !.opened = spc = "returned" \/ @]
          /\ UNCHANGED last
     ELSE /\ Raise("digital_output")
          /\ UNCHANGED <<shutter, history>>
  /\ UNCHANGED <<regVars, axis_value, daqs, tasks, conditions, laser, scan_params, monitor_params,
                 sweep_condition, axis, geometry, requested, data,
                 value_index, visited, moving, spc>>

\* do_line_scan: "laser.driver.execute_sweep()"
LineSweep(ok) ==
  /\ pc = "line_sweep"
  /\ IF ok
     THEN /\ sweep_condition' = "Running"
          /\ pc' = "line_poll"
          /\ history' = [history EXCEPT !.swept = spc = "returned" \/ @]
          /\ UNCHANGED last
     ELSE /\ Raise("execute_sweep")
          /\ UNCHANGED <<sweep_condition, history>>
  /\ UNCHANGED <<regVars, axis_value, daqs, tasks, conditions, laser, scan_params, monitor_params,
                 shutter, axis, geometry, requested, data,
                 value_index, visited, moving, spc>>

\* do_line_scan: "while laser.driver.sweep_condition != 'Stop'" reads 'Stop',
\* or the read raises
LinePoll(ok) ==
  /\ pc = "line_poll"
  /\ IF ok
     THEN /\ sweep_condition = "Stop"
          /\ pc' = "line_close_end"
          /\ UNCHANGED last
     ELSE Raise("sweep_condition")
  /\ UNCHANGED <<regVars, axis_value, daqs, tasks, conditions, laser, scan_params, monitor_params,
                 sweep_condition, shutter, axis, geometry, requested, data,
                 value_index, visited, moving, spc, history>>

\* a line scan that returns without the closing digital_output
LineReturnOpen(ok) ==
  /\ pc = "line_close_end"
  /\ IF ok
     THEN pc' = "loop" /\ UNCHANGED last
     ELSE Raise("digital_output_close")
  /\ UNCHANGED <<regVars, axis_value, daqs, tasks, conditions, laser, scan_params, monitor_params,
                 sweep_condition, shutter, axis, geometry, requested, data,
                 value_index, visited, moving, spc, history>>

\* do_line_scan: the closing "digital_output(shutter['port'], False)" and
\* "return True"
LineCloseEnd(ok) ==
  /\ pc = "line_close_end"
  /\ IF ok
     THEN /\ shutter' = FALSE
          /\ pc' = "loop"
          /\ UNCHANGED last
     ELSE /\ Raise("digital_output_close")
          /\ UNCHANGED shutter
  /\ UNCHANGED <<regVars, axis_value, daqs, tasks, conditions, laser, scan_params, monitor_params,
                 sweep_condition, axis, geometry, requested, data,
                 value_index, visited, moving, spc, history>>

\* the laser ends a bounded sweep by itself (wavelength_sweeps = 0 sweeps
\* without end)
LaserSweepEnds ==
  /\ sweep_condition = "Running"
  /\ laser.wavelength_sweeps # 0
  /\ sweep_condition' = "Stop"
  /\ UNCHANGED <<regVars, axis_value, daqs, tasks, conditions, laser, scan_params, monitor_params,
                 shutter, axis, geometry, requested, data, last,
                 pc, value_index, visited, moving, spc, history>>

\* stop_scan from the second thread, while do_scan is in progress:
\* stop_laser's "laser.pause_sweep()"
StopScanPause ==
  /\ spc = "idle"
  /\ pc \in InProgress
  /\ sweep_condition' = "Pause"
  /\ spc' = "stop_sweep"
  /\ UNCHANGED <<regVars, axis_value, daqs, tasks, conditions, laser, scan_params, monitor_params,
                 shutter, axis, geometry, requested, data, last,
                 pc, value_index, visited, moving, history>>

\* stop_laser's "laser.stop_sweep()"
StopScanSweep ==
  /\ spc = "stop_sweep"
  /\ sweep_condition' = "Stop"
  /\ spc' = "stop_shutter"
  /\ UNCHANGED <<regVars, axis_value, daqs, tasks, conditions, laser, scan_params, monitor_params,
                 shutter, axis, geometry, requested, data, last,
                 pc, value_index, visited, moving, history>>

\* stop_scan's "ni_daq.driver.digital_output(shutter['port'], False)"
StopScanShutter ==
  /\ spc = "stop_shutter"
  /\ shutter' = FALSE
  /\ spc' = "stop_tasks"
  /\ UNCHANGED <<regVars, axis_value, daqs, tasks, conditions, laser, scan_params, monitor_params,
                 sweep_condition, axis, geometry, requested, data, last,
                 pc, value_index, visited, moving, history>>

\* stop_scan's loop over self.daqs, and its return
StopScanTasks(complete) ==
  /\ spc = "stop_tasks"
  /\ StopTasks(complete)
  /\ spc' = "returned"
  /\ UNCHANGED <<regVars, axis_value, daqs, conditions, laser, scan_params, monitor_params,
                 sweep_condition, shutter, axis, geometry, requested, data,
                 last, pc, value_index, visited, moving, history>>

\* a scan specification with any valid axis range
InitScan ==
  /\ InitCommon
  /\ scan_params = Unset
  /\ monitor_params = Unset
  /\ axis \in ValidAxes

NextScan ==
  \/ \E dets \in ScanDetectorLists : ScanSetup(dets)
  \/ DoScanBegin
  \/ LoopNext
  \/ \E ok \in BOOLEAN, moves \in BOOLEAN : SetValue(ok, moves)
  \/ WaitMove
  \/ AxisStops
  \/ \E ok \in BOOLEAN : LineClose(ok)
  \/ \E ok \in BOOLEAN : LineOpen(ok)
  \/ \E ok \in BOOLEAN : LineSweep(ok)
  \/ \E ok \in BOOLEAN : LinePoll(ok)
  \/ \E ok \in BOOLEAN : LineCloseEnd(ok)
  \/ LaserSweepEnds
  \/ StopScanPause
  \/ StopScanSweep
  \/ StopScanShutter
  \/ \E c \in CompleteAnswers : StopScanTasks(c)

SpecScan == InitScan /\ [][NextScan]_vars

\* setup_continuous_scans, called between setup_scan and do_scan
MonitorSetup(dets) ==
  /\ pc = "configured"
  /\ SetupContinuousScans(dets, TRUE, "none")
  /\ UNCHANGED <<scanVars, regVars>>

\* the steps of the thread that runs do_scan when no driver call raises
DoScanStep ==
  \/ DoScanBegin
  \/ LoopNext
  \/ \E moves \in BOOLEAN : SetValue(TRUE, moves)
  \/ WaitMove
  \/ LineClose(TRUE)
  \/ LineOpen(TRUE)
  \/ LineSweep(TRUE)
  \/ LinePoll(TRUE)
  \/ LineCloseEnd(TRUE)

\* do_scan alone, with drivers that do not raise
NextScanLive ==
  \/ \E dets \in ScanDetectorLists : ScanSetup(dets)
  \/ \E dets \in DetectorLists : MonitorSetup(dets)
  \/ DoScanStep
  \/ AxisStops
  \/ LaserSweepEnds

\* the thread of do_scan keeps running, a moving axis device comes to rest
\* and a bounded laser sweep comes to its end
SpecScanLive ==
  /\ InitScan
  /\ [][NextScanLive]_vars
  /\ WF_vars(DoScanStep)
  /\ WF_vars(AxisStops)
  /\ WF_vars(LaserSweepEnds)

----------------------------------------------------------------------------
(* Properties of the router, the tasks and the laser setup.                *)

\* the set of the elements of a list
Elements(s) == {s[i] : i \in 1..Len(s)}

\* the tasks of DAQ d that are armed and not yet cleared
LiveTasks(d) == {i \in 1..Len(tasks[d]) : tasks[d][i] # "cleared"}

SetupOps == {"setup_scan", "setup_continuous_scans"}

ReadOps == {"read_scans", "read_continuous_scans"}

\* C2: after stop_continuous_scans has returned, no DAQ binding holds a task
\* handle that is set and names a task that is not cleared.
C2_StopLeavesNoLiveHandle ==
  (last.op = "stop_continuous_scans" /\ last.outcome = "ok") =>
    \A d \in DAQs :
      daqs[d].monitor_task # NoTask =>
        TaskStatus(daqs, tasks, d) = "cleared"

\* C3: in every reachable state each DAQ has at most one live (armed and not
\* yet cleared) acquisition task.
C3_AtMostOneLiveTask ==
  \A d \in DAQs : Cardinality(LiveTasks(d)) <= 1

MonitorOps == SetupOps \cup {"connect_monitor_devices_to_daq"}

\* C4: after each call that has set the monitor targets, every DAQ binding's
\* monitor list holds exactly the detectors of the requested detector set
\* that are connected to that DAQ, each once, and nothing of earlier calls.
C4_MonitorExact ==
  (last.op \in MonitorOps /\ last.raised_by # "apply_values") =>
    \A d \in DAQs :
      /\ Elements(daqs[d].monitor) =
           {x \in Elements(requested) : Connection[x] = d}
      /\ Len(daqs[d].monitor) = Cardinality(Elements(daqs[d].monitor))

\* C4 witness: a setup call has emptied the monitor list of a DAQ that an
\* earlier call had filled and armed, while the other DAQ is monitored.
C4_Witness ==
  /\ last.op \in SetupOps
  /\ tasks["NI-DAQ"] # <<>>
  /\ daqs["NI-DAQ"].monitor = <<>>
  /\ requested = <<"pd3">>
  /\ daqs["daq2"].monitor = <<"pd3">>

\* C6: every setup_scan computes the wavelength point count with a sweep
\* factor of at least 1: the count is never below the points of one sweep.
C6_SweepFactorAtLeastOne ==
  last.op = "setup_scan" =>
    /\ geometry.sweeps >= 1
    /\ geometry.wavelength_points >= MonitorNumPoints(laser)

\* C10: when the laser rejects the parameters, a setup call does not raise
\* because of it and completes: unless a DAQ driver call raised, every DAQ
\* with a non-empty monitor list of the requested detectors is armed.
C10_LaserFailureNonFatal ==
  (last.op \in SetupOps /\ ~geometry.accepted) =>
    /\ last.raised_by # "apply_values"
    /\ last.raised_by = "none" =>
         \A d \in Monitoring(daqs) : daqs[d].monitor_task # NoTask

\* C7: a read in which a DAQ with k monitored devices returned a flat sample
\* count not divisible by k raises and returns no data.
C7_IndivisibleReadRaises ==
  (/\ last.op \in ReadOps
   /\ \E d \in Monitoring(daqs) :
        /\ daqs[d].monitor_task # NoTask
        /\ data.returned[d][2] % Len(daqs[d].monitor) # 0) =>
    data.outcome = "raised"

\* C8: a read in which every DAQ with k >= 1 monitored devices returned a
\* flat sample count n divisible by k returns one sequence of n / k samples
\* for each monitored device, and for nothing else.
C8_ReadShape ==
  (/\ last.op \in ReadOps
   /\ \A d \in Monitoring(daqs) :
        /\ daqs[d].monitor_task # NoTask
        /\ data.returned[d][2] % Len(daqs[d].monitor) = 0) =>
    /\ data.outcome = "ok"
    /\ DOMAIN data.rows = UNION {Elements(daqs[d].monitor) : d \in DAQs}
    /\ \A x \in DOMAIN data.rows :
         data.rows[x] * Len(daqs[Connection[x]].monitor) =
           data.returned[Connection[x]][2]

----------------------------------------------------------------------------
(* Properties of do_scan and do_line_scan.                                 *)

\* a call of do_line_scan has ended: it returned, or one of its driver calls
\* after the opening of the shutter raised
LineScanEnded ==
  \/ pc \in {"loop", "done"} /\ value_index >= 1
  \/ pc = "failed" /\ last.raised_by \in AfterOpen

\* C1: every call of do_line_scan ends with the shutter line closed, also
\* when execute_sweep, the sweep_condition poll or the closing digital_output
\* raises.
C1_LineScanEndsClosed ==
  LineScanEnded => ~shutter

\* C5: for a device axis with start < stop and step > 0, the values do_scan
\* has visited when it returns are one more than the axis point count of
\* setup_scan, the first is start and the last is stop.
C5_InclusiveEndpoints ==
  (pc = "done" /\ axis.dev # "time") =>
    /\ Len(visited) = geometry.axis_points + 1
    /\ IsValue(visited[1], axis.start)
    /\ IsValue(visited[Len(visited)], axis.stop)

\* C9: once stop_scan has returned, do_scan starts no further laser sweep,
\* does not open the shutter again, and ends with the shutter closed.
C9_StopInterruptsScan ==
  spc = "returned" =>
    /\ ~history.swept
    /\ ~history.opened
    /\ pc \in {"done", "failed"} => ~shutter

----------------------------------------------------------------------------
(* Properties of the continuous mode.                                      *)

\* C12: start_continuous_scans called after a setup_continuous_scans that
\* returned triggers the armed task of every DAQ with a non-empty monitor
\* list and of no other DAQ, and starts the laser sweep; a start whose
\* trigger loop raises has not started the sweep.
C12_StartTriggersArmed ==
  [][/\ (/\ last.op = "setup_continuous_scans"
         /\ last.outcome = "ok"
         /\ last'.op = "start_continuous_scans") =>
          /\ last'.outcome = "ok"
          /\ sweep_condition' = "Running"
          /\ \A d \in DAQs :
               IF d \in Monitoring(daqs)
               THEN /\ TaskStatus(daqs, tasks, d) = "armed"
                    /\ TaskStatus(daqs', tasks', d) = "running"
                    /\ \A i \in 1..Len(tasks[d]) :
                         i # daqs[d].monitor_task => tasks'[d][i] = tasks[d][i]
               ELSE tasks'[d] = tasks[d]
     /\ (last'.op = "start_continuous_scans" /\ last'.outcome = "raised") =>
          sweep_condition' = sweep_condition]_vars

\* C12 witness: after the setup of the continuous mode, a start has triggered
\* the single task of each of the two monitored DAQs and the laser sweeps.
C12_Witness ==
  /\ last = Result("start_continuous_scans", "none")
  /\ geometry.sweeps = 0
  /\ sweep_condition = "Running"
  /\ \A d \in DAQs :
       /\ Len(daqs[d].monitor) > 0
       /\ tasks[d] = <<"running">>

PauseOps == {"pause_continuous_scans", "resume_continuous_scans"}

\* C13: a pause_continuous_scans or resume_continuous_scans call leaves the
\* monitor lists and task handles of the DAQ bindings, the status of every
\* task and the conditions stored in the DAQ drivers as they were: it changes
\* the laser sweep state only.
C13_PauseResumeFrame ==
  [][last'.op \in PauseOps =>
       /\ daqs' = daqs
       /\ tasks' = tasks
       /\ conditions' = conditions
       /\ laser' = laser
       /\ shutter' = shutter]_vars

\* C13 witness: the sweep is paused while a triggered task runs.
C13_Witness ==
  /\ last.op = "pause_continuous_scans"
  /\ sweep_condition = "Pause"
  /\ \E d \in DAQs :
       /\ daqs[d].monitor_task # NoTask
       /\ TaskStatus(daqs, tasks, d) = "running"

----------------------------------------------------------------------------
(* Properties of the shutter during do_scan.                               *)

\* the positions of do_scan at which the shutter may be open: between the
\* opening and the closing digital_output of a do_line_scan
OpenSection == {"line_sweep", "line_poll", "line_close_end"}

----------------------------------------------------------------------------
(* Properties of the outer loop of do_scan.                                *)

\* do_scan has started the laser sweep of a line scan, or has completed one
SweepStarted ==
  \/ pc \in {"line_poll", "line_close_end"}
  \/ pc \in {"loop", "done"} /\ value_index >= 1

\* C16: in each line scan of do_scan the armed acquisition task of every
\* monitored DAQ is triggered after the shutter is opened and before it is
\* closed: once the sweep of a line scan has been started, no monitored
\* DAQ's task is still armed and untriggered.
C16_LineScanTriggersTask ==
  SweepStarted =>
    \A d \in Monitoring(daqs) :
      daqs[d].monitor_task # NoTask => TaskStatus(daqs, tasks, d) # "armed"

\* C17: when do_scan ends without a driver call having raised, the values
\* visited on a device axis are start, start + step, start + 2 step, ...,
\* and on the time axis with range stop N they are the indices 1..N, one
\* line scan each.
C17_VisitsSpacedByStep ==
  (pc \in {"done", "failed"} /\ last.raised_by \in {"none", "properties"}) =>
    IF axis.dev # "time"
    THEN \A i \in 1..Len(visited) :
           IsValue(visited[i], axis.start + (i - 1) * axis.step)
    ELSE /\ Len(visited) = axis.stop
         /\ \A i \in 1..Len(visited) : IsValue(visited[i], i)

\* C18: when do_scan has returned, the points every monitored DAQ was armed
\* for by setup_scan are wavelength_points times the number of line scans
\* do_scan has performed.
C18_ArmedPointsCoverScan ==
  pc = "done" =>
    \A d \in Monitoring(daqs) :
      conditions[d] = geometry.wavelength_points * Len(visited)

----------------------------------------------------------------------------
(* Properties of the device registry.                                      *)

\* no element occurs twice in the list
NoRepeat(list) ==
  \A i, j \in 1..Len(list) : i # j => list[i] # list[j]

\* the names of the devices of a list
NameList(list) == [i \in 1..Len(list) |-> list[i].name]

\* C14: a load_devices that returns has replaced no device registered
\* before, and leaves no name twice in the rotation-stage list and no two
\* devices of one name in the output-device list: registering a name that
\* is present fails and changes nothing.
C14_DuplicateNameRejected ==
  [][(last'.op = "load_devices" /\ last'.outcome = "ok") =>
       /\ \A i \in 1..Len(devices) : devices'[i] = devices[i]
       /\ NoRepeat(rotation_stages')
       /\ NoRepeat(NameList(output_devices'))]_vars

\* C15: after initialize_devices, whether a device call raised or not, every
\* registered device other than the one whose call raised has its driver
\* initialized and, if it is of type daq, has its DAQ binding.
C15_BestEffortInitialize ==
  last.op = "initialize_devices" =>
    \A i \in 1..Len(devices) :
      devices[i].name # init_fault.name =>
        /\ devices[i].name \in drivers
        /\ devices[i].type = "daq" => devices[i].name \in DOMAIN bindings

\* the number of places at which the list holds dev
Occurrences(list, dev) ==
  Cardinality({i \in 1..Len(list) : list[i] = dev})

\* C21: a set_value_to_device on a registered device that returns has
\* written the value with one driver call: analog_output_dc for a device
\* with the 'model' key, whatever its value, apply_values for every other.
C21_ValueWritten ==
  (last.op = "set_value_to_device" /\ last.outcome = "ok") =>
    written.via =
      IF DeviceOf(devices, written.dev).model # "none"
      THEN "analog_output_dc" ELSE "apply_values"

\* C22: after a connect_all_devices_to_daq that returns, every registered
\* device with a DAQ connection is once in the list of its DAQ's binding
\* that its mode selects, and in no other list of any binding.
C22_ConnectIdempotent ==
  (last.op = "connect_all_devices_to_daq" /\ last.outcome = "ok") =>
    \A i \in 1..Len(devices) :
      devices[i].conn # "none" =>
        \A d \in DOMAIN bindings, mode \in {"input", "output"} :
          Occurrences(bindings[d][mode], devices[i]) =
            IF d = devices[i].conn /\ mode = devices[i].mode THEN 1 ELSE 0

====
